---- MODULE Spec2Model ----
(***************************************************************************)
(* Simple Contact Manager API (src/backend/app.js): an Express server over *)
(* one shared sqlite3 connection.  Every handler is an async function; it  *)
(* runs synchronously up to its next awaited store call, so a step of the  *)
(* model is one store call together with the handler code that follows it  *)
(* up to the next store call (or the response).  Handlers of different     *)
(* requests interleave at these points.  All statements go through the one *)
(* connection `db`, hence through the one transaction it may have open.    *)
(***************************************************************************)
EXTENDS Integers, Sequences, FiniteSets, TLC

\* ------------------------------------------------------------------ bounds
MaxReqs  == 2      \* requests received in one behaviour
MaxClock == 1      \* seconds the clock of datetime('now') may advance

\* the slots of the requests in flight together; which slot a request takes
\* is immaterial, so it takes the first free one
Procs == {"r1", "r2"}

\* ------------------------------------------------------------ JS values
\* undefined and null of JavaScript / NULL of SQLite, among text values
ABSENT == "<undefined>"
NULL   == "<null>"

\* JavaScript truthiness of a text-or-null value (!v is its negation)
Truthy(v) == v \notin {ABSENT, NULL, ""}

\* a ?? b
Coalesce(a, b) == IF a \in {ABSENT, NULL} THEN b ELSE a

\* a || b
OrElse(a, b) == IF Truthy(a) THEN a ELSE b

\* a destructuring default `name = dflt` applies to undefined only
Default(v, dflt) == IF v = ABSENT THEN dflt ELSE v

MutableFields == {"first_name", "last_name", "email", "phone", "company", "notes"}

\* --------------------------------------------------------------- inputs
NoFields == [f \in MutableFields |-> ABSENT]

\* request bodies of POST /contacts
CreateBodies ==
    { [NoFields EXCEPT !["first_name"] = "A", !["last_name"] = "B"],
      [NoFields EXCEPT !["first_name"] = "C", !["last_name"] = "D",
                       !["email"] = "e", !["company"] = "c"],
      [NoFields EXCEPT !["last_name"] = "B"],
      [NoFields EXCEPT !["first_name"] = "A", !["last_name"] = ""] }

\* request bodies of PUT /contacts/:id
UpdateBodies ==
    { NoFields,
      [NoFields EXCEPT !["company"] = "X"],
      [NoFields EXCEPT !["email"] = "e2"],
      [NoFields EXCEPT !["email"] = NULL],
      [NoFields EXCEPT !["first_name"] = ""] }

\* the id cell of a spreadsheet row: none, an integer, or text no integer
NoId     == [kind |-> "none", v |-> 0]
IntId(n) == [kind |-> "int", v |-> n]
TextId   == [kind |-> "text", v |-> 0]

\* rows of sheet_to_json(ws, {defval: null}); a column the sheet lacks is
\* undefined, an empty cell is null
NoRow ==
    [id |-> NoId, first_name |-> ABSENT, firstName |-> ABSENT,
     first_name_sp |-> ABSENT, last_name |-> ABSENT, lastName |-> ABSENT,
     last_name_sp |-> ABSENT, email |-> ABSENT, phone |-> ABSENT,
     company |-> ABSENT, notes |-> ABSENT]

RowAB       == [NoRow EXCEPT !.first_name = "A", !.last_name = "B"]
RowOnlyLast == [NoRow EXCEPT !.first_name = NULL, !.last_name = "OnlyLast"]
RowId1      == [NoRow EXCEPT !.id = IntId(1), !.firstName = "C",
                             !.lastName = "D", !.email = "e"]
RowId2      == [NoRow EXCEPT !.id = IntId(2), !.first_name_sp = "E",
                             !.last_name_sp = "F"]
RowId0      == [NoRow EXCEPT !.id = IntId(0), !.first_name = "A",
                             !.last_name = "B"]
RowText     == [NoRow EXCEPT !.id = TextId, !.first_name = "A",
                             !.last_name = "B"]

\* the sheets uploaded to POST /contacts/import
ImportSheets ==
    { <<RowAB, RowOnlyLast>>,
      <<RowId1, RowId2>>,
      <<RowOnlyLast, RowId1>>,
      <<RowId0>>,
      <<RowAB, RowText>> }

\* the :id of GET/PUT/DELETE /contacts/:id
ParamIds == {1}

\* req.query of GET /contacts: each parameter a text, or absent
NoQuery == [q |-> ABSENT, sort |-> ABSENT, dir |-> ABSENT,
            limit |-> ABSENT, offset |-> ABSENT]

\* values of ?sort=: the seven columns allowed, two columns not allowed, and
\* a text that is no column
SortParams ==
    {"first_name", "last_name", "email", "phone", "company", "created_at",
     "updated_at", "id", "notes", "last_name; DROP TABLE contacts"}

\* the queries sent while other requests are in flight
ListQueries ==
    { NoQuery,
      [NoQuery EXCEPT !.q = "e", !.limit = "1"] }

\* the queries sent between other requests
SeqListQueries ==
    ListQueries
    \cup {[NoQuery EXCEPT !.sort = s, !.dir = d] :
             s \in SortParams, d \in {ABSENT, "DESC"}}
    \cup {[NoQuery EXCEPT !.dir = d] : d \in {"asc", "desc", "up"}}
    \cup {[NoQuery EXCEPT !.q = q, !.limit = l, !.offset = o] :
             q \in {ABSENT, "", "e", "zz"}, l \in {ABSENT, "0", "1", "-1"},
             o \in {ABSENT, "1", "2", "-1"}}

\* ---------------------------------------------------------------- state
VARIABLES
    store,      \* the rows of table contacts, as the connection sees them
    seq,        \* sqlite_sequence of contacts: the largest rowid ever used
    txn,        \* whether the connection has a transaction open
    snap,       \* what ROLLBACK restores: table and sequence at BEGIN
    now,        \* the clock: datetime('now') as last read, in seconds
    pc,         \* per request slot: the store call its handler awaits
    req,        \* per request slot: the request
    loc,        \* per request slot: the handler's local variables
    resp,       \* per request slot: the response sent
    nreq,       \* requests received so far
    deletedIds, \* history: ids removed by DELETE /contacts/:id
    midReads    \* history: what reads saw while the open transaction ran

vars == <<store, seq, txn, snap, now, pc, req, loc, resp, nreq,
          deletedIds, midReads>>

Ids(s) == {c.id : c \in s}

\* SELECT * FROM contacts WHERE id = ?  (no row: the empty set)
RowOf(s, id) == {c \in s : c.id = id}

NoReq == [op |-> "none", id |-> 0, body |-> NoFields, rows |-> <<>>,
          query |-> NoQuery]

NoLoc == [pos |-> 0, inserted |-> 0, updated |-> 0, skipped |-> 0,
          existing |-> {}, exists |-> FALSE, newId |-> 0, changes |-> 0,
          pre |-> {}, orderBy |-> "", rows |-> <<>>]

NoCounts == [inserted |-> 0, updated |-> 0, skipped |-> 0, totalParsed |-> 0]

\* res.status(status).json(...): kind names the shape of the body; total is
\* the total of a page, error the message of an error body
Response(status, kind, data, counts) ==
    [status |-> status, kind |-> kind, data |-> data, counts |-> counts,
     total |-> 0, error |-> ""]

\* res.status(status).json({error: msg})
ErrorResponse(status, msg) ==
    [Response(status, "error", {}, NoCounts) EXCEPT !.error = msg]

NotFound == ErrorResponse(404, "Not found")

\* e.message of a BEGIN that finds the connection's transaction open, and of
\* any other statement that fails
NestedBegin == "cannot start a transaction within a transaction"
StmtFailed  == "statement failed"

NoResp == Response(0, "none", {}, NoCounts)

\* the row a database file of an earlier run may hold: created by
\* POST /contacts {first_name: "A", last_name: "B", email: "e"} at second 0
Kept ==
    [id |-> 1, first_name |-> "A", last_name |-> "B", email |-> "e",
     phone |-> NULL, company |-> NULL, notes |-> NULL,
     created_at |-> 0, updated_at |-> 0]

\* new sqlite3.Database(DB_FILE) and CREATE TABLE IF NOT EXISTS: the file is
\* new (an empty table) or kept from an earlier run (here: with one row)
Init ==
    /\ \/ store = {} /\ seq = 0
       \/ store = {Kept} /\ seq = 1
    /\ txn = FALSE
    /\ snap = [store |-> {}, seq |-> 0]
    /\ now = 0
    /\ pc = [p \in Procs |-> "done"]
    /\ req = [p \in Procs |-> NoReq]
    /\ loc = [p \in Procs |-> NoLoc]
    /\ resp = [p \in Procs |-> NoResp]
    /\ nreq = 0
    /\ deletedIds = {}
    /\ midReads = {}

\* the handler of slot p sends its response and ends
Respond(p, r) ==
    /\ pc' = [pc EXCEPT ![p] = "done"]
    /\ resp' = [resp EXCEPT ![p] = r]
    /\ req' = [req EXCEPT ![p] = NoReq]
    /\ loc' = [loc EXCEPT ![p] = NoLoc]

\* a request arrives at slot p; its handler runs to its first store call
FirstFree(p) == p = "r1" \/ pc["r1"] /= "done"

\* a request may arrive at slot p
Arrives(p) ==
    /\ pc[p] = "done"
    /\ FirstFree(p)
    /\ nreq < MaxReqs

Receive(p, r, at) ==
    /\ Arrives(p)
    /\ nreq' = nreq + 1
    /\ pc' = [pc EXCEPT ![p] = at]
    /\ req' = [req EXCEPT ![p] = r]
    /\ loc' = [loc EXCEPT ![p] = NoLoc]
    /\ resp' = [resp EXCEPT ![p] = NoResp]

\* what a read of row id (0: of the whole table) returns on table s
View(s, id) == IF id = 0 THEN s ELSE RowOf(s, id)

\* history: what GET /contacts/:id or GET /export of slot p returns while
\* another request's transaction is open, when that is something else than
\* the table held at BEGIN
NoteRead(p, id, data) ==
    midReads' = IF /\ txn
                   /\ \E q \in Procs \ {p} : loc[q].pos > 0
                   /\ data /= View(snap.store, id)
                THEN midReads \cup {[id |-> id, data |-> data]}
                ELSE midReads

\* ------------------------------------------------------- the statements
\* datetime('now') as a statement reads it: the clock is read by INSERT and
\* UPDATE only, and between two readings any number of seconds may pass
ClockReading(t) ==
    /\ t \in now .. MaxClock
    /\ now' = t

\* mutant: updated_at stamped by a later reading of the clock than created_at
NewContactStampedApart(id, f, t) ==
    [id |-> id,
     first_name |-> f["first_name"], last_name |-> f["last_name"],
     email |-> f["email"], phone |-> f["phone"],
     company |-> f["company"], notes |-> f["notes"],
     created_at |-> t, updated_at |-> t + 1]

\* INSERT INTO contacts (...) VALUES (...) under rowid id; created_at and
\* updated_at take their DEFAULT (datetime('now')), one clock reading
NewContact(id, f, t) ==
    [id |-> id,
     first_name |-> f["first_name"], last_name |-> f["last_name"],
     email |-> f["email"], phone |-> f["phone"],
     company |-> f["company"], notes |-> f["notes"],
     created_at |-> t, updated_at |-> t]

\* UPDATE contacts SET <the six fields>, updated_at = datetime('now')
\* WHERE id = ?: the row as rewritten
Rewritten(c, f, t) ==
    [c EXCEPT !.first_name = f["first_name"], !.last_name = f["last_name"],
              !.email = f["email"], !.phone = f["phone"],
              !.company = f["company"], !.notes = f["notes"],
              !.updated_at = t]

UpdateStmt(s, id, f, t) ==
    {IF c.id = id THEN Rewritten(c, f, t) ELSE c : c \in s}

\* DELETE FROM contacts WHERE id = ?
DeleteStmt(s, id) == {c \in s : c.id /= id}

\* the rowid AUTOINCREMENT assigns: one more than the largest ever used
AutoId == seq + 1

Max(a, b) == IF a >= b THEN a ELSE b

\* --------------------------------------------------------- GET /contacts
\* the characters of a text; a text of one character is that character
Chars(v) ==
    CASE v = ""         -> <<>>
      [] v = "e2"       -> <<"e", "2">>
      [] v = "zz"       -> <<"z", "z">>
      [] v = "up"       -> <<"u", "p">>
      [] v = "asc"      -> <<"a", "s", "c">>
      [] v = "desc"     -> <<"d", "e", "s", "c">>
      [] v = "DESC"     -> <<"D", "E", "S", "C">>
      [] v = "OnlyLast" -> <<"O", "n", "l", "y", "L", "a", "s", "t">>
      [] OTHER          -> <<v>>

UpperCase == <<"A", "B", "C", "D", "E", "F", "G", "H", "I", "J", "K", "L", "M",
               "N", "O", "P", "Q", "R", "S", "T", "U", "V", "W", "X", "Y", "Z">>
LowerCase == <<"a", "b", "c", "d", "e", "f", "g", "h", "i", "j", "k", "l", "m",
               "n", "o", "p", "q", "r", "s", "t", "u", "v", "w", "x", "y", "z">>
Digits    == <<"0", "1", "2", "3", "4", "5", "6", "7", "8", "9">>

\* the characters in the order of their codes
CodeOrder == Digits \o UpperCase \o LowerCase

Code(ch) == CHOOSE i \in 1 .. Len(CodeOrder) : CodeOrder[i] = ch

\* toLowerCase(), and the case folding of LIKE
LowerChar(ch) ==
    IF \E i \in 1 .. Len(UpperCase) : UpperCase[i] = ch
    THEN LowerCase[CHOOSE i \in 1 .. Len(UpperCase) : UpperCase[i] = ch]
    ELSE ch

ToLower(cs) == [i \in 1 .. Len(cs) |-> LowerChar(cs[i])]

\* Number(v) of a decimal text
ToNumber(v) ==
    CASE v = "0" -> 0 [] v = "1" -> 1 [] v = "2" -> 2 [] v = "-1" -> 0 - 1

\* limit = 100, offset = 0
DefaultLimit  == 100
DefaultOffset == 0

AllowedSort ==
    {"first_name", "last_name", "email", "phone", "company", "created_at",
     "updated_at"}

\* the columns of table contacts
Columns == AllowedSort \cup {"id", "notes"}

\* mutant: the column of ORDER BY is the parameter as given
SafeSortAsGiven(sort) == sort

\* allowedSort.has(String(sort)) ? String(sort) : "last_name"
SafeSort(sort) == IF sort \in AllowedSort THEN sort ELSE "last_name"

\* String(dir).toLowerCase() === "desc" ? "DESC" : "ASC"
SafeDir(dir) ==
    IF ToLower(Chars(dir)) = <<"d", "e", "s", "c">> THEN "DESC" ELSE "ASC"

\* t occurs in s
Contains(s, t) ==
    \E i \in 0 .. Len(s) - Len(t) : SubSeq(s, i + 1, i + Len(t)) = t

\* v LIKE '%q%': NULL is like nothing, letters match in either case
Like(v, q) == v /= NULL /\ Contains(ToLower(Chars(v)), ToLower(Chars(q)))

\* the WHERE clause built for a q that is not empty
Matches(c, q) ==
    \E f \in {"first_name", "last_name", "email", "phone", "company"} :
        Like(c[f], q)

\* the rows of s the WHERE clause keeps: all of them when there is none
Where(s, q) == IF Truthy(q) THEN {c \in s : Matches(c, q)} ELSE s

\* text a sorts before text b: character by character, by code
RECURSIVE TextLess(_, _)
TextLess(a, b) ==
    IF b = <<>> THEN FALSE
    ELSE IF a = <<>> THEN TRUE
    ELSE IF Head(a) /= Head(b) THEN Code(Head(a)) < Code(Head(b))
    ELSE TextLess(Tail(a), Tail(b))

\* value x sorts before value y in a column: NULL before everything else,
\* the seconds of a timestamp by number, texts by TextLess
ValueLess(x, y, col) ==
    IF col \in {"created_at", "updated_at", "id"} THEN x < y
    ELSE IF y = NULL THEN FALSE
    ELSE IF x = NULL THEN TRUE
    ELSE TextLess(Chars(x), Chars(y))

\* ORDER BY col dir: the orders in which the rows of s may come; rows equal
\* in col come in any order
Ordered(s, col, dir) ==
    {sq \in [1 .. Cardinality(s) -> s] :
        /\ \A i, j \in 1 .. Cardinality(s) : i /= j => sq[i] /= sq[j]
        /\ \A i, j \in 1 .. Cardinality(s) :
              i < j => IF dir = "DESC"
                       THEN ~ValueLess(sq[i][col], sq[j][col], col)
                       ELSE ~ValueLess(sq[j][col], sq[i][col], col)}

\* mutant: OFFSET is not applied
LimitOffsetFromStart(sq, limit, offset) ==
    SubSeq(sq, 1, IF limit < 0 \/ limit > Len(sq) THEN Len(sq) ELSE limit)

\* LIMIT limit OFFSET offset: a negative limit is no limit, a negative offset
\* is offset 0
LimitOffset(sq, limit, offset) ==
    LET off == IF offset < 0 THEN 0 ELSE offset
        to  == IF limit < 0 \/ off + limit > Len(sq)
               THEN Len(sq) ELSE off + limit
    IN SubSeq(sq, off + 1, to)

\* res.json({data: rows, total: totalRow.total})
PageResponse(rows, total) ==
    [Response(200, "page", rows, NoCounts) EXCEPT !.total = total]

StartListOf(p, queries) ==
    /\ \E query \in queries :
         Receive(p, [NoReq EXCEPT !.op = "list", !.query = query], "list_rows")
    /\ UNCHANGED <<store, seq, txn, snap, now, deletedIds, midReads>>

StartList(p) == StartListOf(p, ListQueries)

StartListSeq(p) == StartListOf(p, SeqListQueries)

\* SELECT * FROM contacts <where> ORDER BY <safeSort> <safeDir> LIMIT ?
\* OFFSET ?; a column the table lacks fails the statement
ListRows(p) ==
    /\ pc[p] = "list_rows"
    /\ LET query   == req[p].query
           safeSort == SafeSort(Default(query.sort, "last_name"))
           safeDir  == SafeDir(Default(query.dir, "asc"))
           limit    == IF query.limit = ABSENT
                       THEN DefaultLimit ELSE ToNumber(query.limit)
           offset   == IF query.offset = ABSENT
                       THEN DefaultOffset ELSE ToNumber(query.offset)
       IN IF safeSort \notin Columns
          THEN Respond(p, ErrorResponse(500, StmtFailed))
          ELSE /\ \E sq \in Ordered(Where(store, Default(query.q, "")),
                                    safeSort, safeDir) :
                    loc' = [loc EXCEPT
                              ![p].orderBy = safeSort,
                              ![p].rows = LimitOffset(sq, limit, offset)]
               /\ pc' = [pc EXCEPT ![p] = "list_count"]
               /\ UNCHANGED <<req, resp>>
    /\ UNCHANGED <<store, seq, txn, snap, now, nreq, deletedIds, midReads>>

\* SELECT COUNT(*) as total FROM contacts <where>
ListCount(p) ==
    /\ pc[p] = "list_count"
    /\ Respond(p, PageResponse(loc[p].rows,
                 Cardinality(Where(store, Default(req[p].query.q, "")))))
    /\ UNCHANGED <<store, seq, txn, snap, now, nreq, deletedIds, midReads>>

\* ----------------------------------------------------- GET /contacts/:id
GetResponse(s, id) ==
    IF RowOf(s, id) = {}
    THEN NotFound
    ELSE Response(200, "contact", RowOf(s, id), NoCounts)

StartGet(p) ==
    /\ \E id \in ParamIds :
         Receive(p, [NoReq EXCEPT !.op = "get", !.id = id], "get_query")
    /\ UNCHANGED <<store, seq, txn, snap, now, deletedIds, midReads>>

GetQuery(p) ==
    /\ pc[p] = "get_query"
    /\ Respond(p, GetResponse(store, req[p].id))
    /\ NoteRead(p, req[p].id, RowOf(store, req[p].id))
    /\ UNCHANGED <<store, seq, txn, snap, now, nreq, deletedIds>>

\* -------------------------------------------------------- POST /contacts
\* the destructuring defaults of the handler
CreateFields(body) ==
    [f \in MutableFields |->
        IF f \in {"first_name", "last_name"}
        THEN Default(body[f], "") ELSE Default(body[f], NULL)]

\* mutant: only the first name is required
CreateValidFirstOnly(body) == Truthy(CreateFields(body)["first_name"])

\* !first_name || !last_name answers 400
CreateValid(body) ==
    /\ Truthy(CreateFields(body)["first_name"])
    /\ Truthy(CreateFields(body)["last_name"])

\* a body refused is answered before any store call; the request refused
\* stays in req until the slot's next request
StartCreate(p) ==
    /\ \E body \in CreateBodies :
         IF CreateValid(body)
         THEN Receive(p, [NoReq EXCEPT !.op = "create", !.body = body],
                      "create_insert")
         ELSE /\ Arrives(p)
              /\ nreq' = nreq + 1
              /\ pc' = [pc EXCEPT ![p] = "done"]
              /\ req' = [req EXCEPT ![p] =
                            [NoReq EXCEPT !.op = "create", !.body = body]]
              /\ loc' = [loc EXCEPT ![p] = NoLoc]
              /\ resp' = [resp EXCEPT ![p] =
                   ErrorResponse(400, "first_name and last_name are required")]
    /\ UNCHANGED <<store, seq, txn, snap, now, deletedIds, midReads>>

CreateInsert(p) ==
    /\ pc[p] = "create_insert"
    /\ \E t \in 0 .. MaxClock :
         /\ ClockReading(t)
         /\ store' = store \cup {NewContact(AutoId, CreateFields(req[p].body), t)}
    /\ seq' = AutoId
    /\ loc' = [loc EXCEPT ![p].newId = AutoId]
    /\ pc' = [pc EXCEPT ![p] = "create_get"]
    /\ UNCHANGED <<txn, snap, req, resp, nreq, deletedIds, midReads>>

CreateGet(p) ==
    /\ pc[p] = "create_get"
    /\ Respond(p, Response(201, "contact", RowOf(store, loc[p].newId), NoCounts))
    /\ UNCHANGED <<store, seq, txn, snap, now, nreq, deletedIds, midReads>>

\* ----------------------------------------------------- PUT /contacts/:id
\* mutant: a body of fixed shape, a field it lacks being null
PayloadFixedShape(body, existing) ==
    [f \in MutableFields |->
        IF f \in {"first_name", "last_name"}
        THEN Coalesce(body[f], existing[f]) ELSE Default(body[f], NULL)]

\* payload: each field of the body ?? the field of the row read
Payload(body, existing) ==
    [f \in MutableFields |-> Coalesce(body[f], existing[f])]

StartUpdate(p) ==
    /\ \E id \in ParamIds, body \in UpdateBodies :
         Receive(p, [NoReq EXCEPT !.op = "update", !.id = id, !.body = body],
                 "update_get")
    /\ UNCHANGED <<store, seq, txn, snap, now, deletedIds, midReads>>

UpdateGet(p) ==
    /\ pc[p] = "update_get"
    /\ IF RowOf(store, req[p].id) = {}
       THEN Respond(p, NotFound)
       ELSE /\ loc' = [loc EXCEPT ![p].existing = RowOf(store, req[p].id)]
            /\ pc' = [pc EXCEPT ![p] = "update_run"]
            /\ UNCHANGED <<req, resp>>
    /\ UNCHANGED <<store, seq, txn, snap, now, nreq, deletedIds, midReads>>

UpdateRun(p) ==
    /\ pc[p] = "update_run"
    /\ \E existing \in loc[p].existing, t \in 0 .. MaxClock :
         /\ ClockReading(t)
         /\ store' = UpdateStmt(store, req[p].id,
                                Payload(req[p].body, existing), t)
    /\ loc' = [loc EXCEPT ![p].changes = Cardinality(RowOf(store, req[p].id))]
    /\ pc' = [pc EXCEPT ![p] = "update_reget"]
    /\ UNCHANGED <<seq, txn, snap, req, resp, nreq, deletedIds, midReads>>

UpdateReget(p) ==
    /\ pc[p] = "update_reget"
    /\ Respond(p, Response(200, "updated", RowOf(store, req[p].id), NoCounts))
    /\ UNCHANGED <<store, seq, txn, snap, now, nreq, deletedIds, midReads>>

\* -------------------------------------------------- DELETE /contacts/:id
StartDelete(p) ==
    /\ \E id \in ParamIds :
         Receive(p, [NoReq EXCEPT !.op = "delete", !.id = id], "delete_run")
    /\ UNCHANGED <<store, seq, txn, snap, now, deletedIds, midReads>>

\* mutant: the count of deleted rows is not looked at
DeleteAlwaysOk(changes) == Response(200, "ok", {}, NoCounts)

\* result.changes === 0 answers 404
DeleteResponse(changes) ==
    IF changes = 0
    THEN NotFound
    ELSE Response(200, "ok", {}, NoCounts)

DeleteRun(p) ==
    /\ pc[p] = "delete_run"
    /\ store' = DeleteStmt(store, req[p].id)
    /\ Respond(p, DeleteResponse(Cardinality(RowOf(store, req[p].id))))
    /\ deletedIds' = deletedIds \cup Ids(RowOf(store, req[p].id))
    /\ UNCHANGED <<seq, txn, snap, now, nreq, midReads>>

\* ---------------------------------------------------------- GET /export
StartExport(p) ==
    /\ Receive(p, [NoReq EXCEPT !.op = "export"], "export_query")
    /\ UNCHANGED <<store, seq, txn, snap, now, deletedIds, midReads>>

\* SELECT * FROM contacts: every row (id 0 names the whole table)
ExportQuery(p) ==
    /\ pc[p] = "export_query"
    /\ Respond(p, Response(200, "sheet", store, NoCounts))
    /\ NoteRead(p, 0, store)
    /\ UNCHANGED <<store, seq, txn, snap, now, nreq, deletedIds>>

\* ------------------------------------------------- POST /contacts/import
\* r.first_name || r.firstName || r["first name"], and the same for last
First(r) == OrElse(OrElse(r.first_name, r.firstName), r.first_name_sp)
Last(r)  == OrElse(OrElse(r.last_name, r.lastName), r.last_name_sp)

\* mutant: only the last name is required
SkipsWithoutLastOnly(r) == ~Truthy(Last(r))

\* if (!first || !last) { skipped++; continue; }
Skips(r) == ~Truthy(First(r)) \/ ~Truthy(Last(r))

\* the values bound to the row's INSERT or UPDATE
RowFields(r) ==
    [f \in MutableFields |->
        CASE f = "first_name" -> First(r)
          [] f = "last_name"  -> Last(r)
          [] f = "email"      -> Coalesce(r.email, NULL)
          [] f = "phone"      -> Coalesce(r.phone, NULL)
          [] f = "company"    -> Coalesce(r.company, NULL)
          [] f = "notes"      -> Coalesce(r.notes, NULL)]

\* const id = r.id ?? null; if (id): 0 is falsy, text that is not empty is not
IdTruthy(id) == id.kind = "text" \/ (id.kind = "int" /\ id.v /= 0)

\* SELECT id FROM contacts WHERE id = ?: text that is no integer matches no row
IdExists(s, id) == id.kind = "int" /\ RowOf(s, id.v) /= {}

\* whether INSERT INTO contacts (id, ...) fails: text in the INTEGER PRIMARY KEY
\* (datatype mismatch) or a rowid already in the table (UNIQUE constraint)
InsertIdFails(s, id) == id.kind = "text" \/ id.v \in Ids(s)

CurRow(p) == req[p].rows[loc[p].pos]

AtRow(p) == pc[p] = "import_row" /\ loc[p].pos <= Len(req[p].rows)

StartImport(p) ==
    /\ \E rows \in ImportSheets :
         Receive(p, [NoReq EXCEPT !.op = "import", !.rows = rows], "import_begin")
    /\ UNCHANGED <<store, seq, txn, snap, now, deletedIds, midReads>>

\* mutant: a BEGIN inside the open transaction is taken as done
ImportBeginJoins(p) ==
    /\ pc[p] = "import_begin"
    /\ txn' = TRUE
    /\ snap' = IF txn THEN snap ELSE [store |-> store, seq |-> seq]
    /\ loc' = [loc EXCEPT ![p].pos = 1, ![p].pre = store]
    /\ pc' = [pc EXCEPT ![p] = "import_row"]
    /\ midReads' = IF txn THEN midReads ELSE {}
    /\ UNCHANGED <<store, seq, now, nreq, deletedIds, req, resp>>

\* await run("BEGIN"): an error when the connection has a transaction open;
\* it is thrown outside the inner try, so no ROLLBACK follows
ImportBegin(p) ==
    /\ pc[p] = "import_begin"
    /\ IF txn
       THEN /\ Respond(p, ErrorResponse(500, NestedBegin))
            /\ UNCHANGED <<txn, snap, midReads>>
       ELSE /\ txn' = TRUE
            /\ snap' = [store |-> store, seq |-> seq]
            /\ loc' = [loc EXCEPT ![p].pos = 1, ![p].pre = store]
            /\ pc' = [pc EXCEPT ![p] = "import_row"]
            /\ midReads' = {}
            /\ UNCHANGED <<req, resp>>
    /\ UNCHANGED <<store, seq, now, nreq, deletedIds>>

ImportSkip(p) ==
    /\ AtRow(p)
    /\ Skips(CurRow(p))
    /\ loc' = [loc EXCEPT ![p].skipped = @ + 1, ![p].pos = @ + 1]
    /\ UNCHANGED <<store, seq, txn, snap, now, pc, req, resp, nreq,
                   deletedIds, midReads>>

ImportLookup(p) ==
    /\ AtRow(p)
    /\ ~Skips(CurRow(p))
    /\ IdTruthy(CurRow(p).id)
    /\ loc' = [loc EXCEPT ![p].exists = IdExists(store, CurRow(p).id)]
    /\ pc' = [pc EXCEPT ![p] = "import_write"]
    /\ UNCHANGED <<store, seq, txn, snap, now, req, resp, nreq,
                   deletedIds, midReads>>

ImportUpdate(p) ==
    /\ pc[p] = "import_write"
    /\ loc[p].exists
    /\ \E t \in 0 .. MaxClock :
         /\ ClockReading(t)
         /\ store' = UpdateStmt(store, CurRow(p).id.v, RowFields(CurRow(p)), t)
    /\ loc' = [loc EXCEPT ![p].updated = @ + 1, ![p].pos = @ + 1]
    /\ pc' = [pc EXCEPT ![p] = "import_row"]
    /\ UNCHANGED <<seq, txn, snap, req, resp, nreq, deletedIds, midReads>>

ImportInsertId(p) ==
    /\ pc[p] = "import_write"
    /\ ~loc[p].exists
    /\ IF InsertIdFails(store, CurRow(p).id)
       THEN /\ pc' = [pc EXCEPT ![p] = "import_rollback"]
            /\ UNCHANGED <<store, seq, now, loc>>
       ELSE /\ \E t \in 0 .. MaxClock :
                 /\ ClockReading(t)
                 /\ store' = store \cup
                      {NewContact(CurRow(p).id.v, RowFields(CurRow(p)), t)}
            /\ seq' = Max(seq, CurRow(p).id.v)
            /\ loc' = [loc EXCEPT ![p].inserted = @ + 1, ![p].pos = @ + 1]
            /\ pc' = [pc EXCEPT ![p] = "import_row"]
    /\ UNCHANGED <<txn, snap, req, resp, nreq, deletedIds, midReads>>

ImportInsertAuto(p) ==
    /\ AtRow(p)
    /\ ~Skips(CurRow(p))
    /\ ~IdTruthy(CurRow(p).id)
    /\ \E t \in 0 .. MaxClock :
         /\ ClockReading(t)
         /\ store' = store \cup {NewContact(AutoId, RowFields(CurRow(p)), t)}
    /\ seq' = AutoId
    /\ loc' = [loc EXCEPT ![p].inserted = @ + 1, ![p].pos = @ + 1]
    /\ UNCHANGED <<txn, snap, pc, req, resp, nreq, deletedIds, midReads>>

\* a store call of the row loop, or the COMMIT after it, fails (the storage
\* signals an error): the inner catch takes over, the transaction still open
ImportFault(p) ==
    /\ \/ AtRow(p) /\ ~Skips(CurRow(p))
       \/ pc[p] = "import_write"
       \/ pc[p] = "import_row" /\ loc[p].pos > Len(req[p].rows)
    /\ pc' = [pc EXCEPT ![p] = "import_rollback"]
    /\ UNCHANGED <<store, seq, txn, snap, now, req, loc, resp, nreq,
                   deletedIds, midReads>>

\* await run("COMMIT"); res.json({ok, inserted, updated, skipped, totalParsed})
ImportCommit(p) ==
    /\ pc[p] = "import_row"
    /\ loc[p].pos > Len(req[p].rows)
    /\ txn' = FALSE
    /\ snap' = [store |-> {}, seq |-> 0]
    /\ Respond(p, Response(200, "summary", {},
                  [inserted |-> loc[p].inserted, updated |-> loc[p].updated,
                   skipped |-> loc[p].skipped,
                   totalParsed |-> Len(req[p].rows)]))
    /\ midReads' = {}
    /\ UNCHANGED <<store, seq, now, nreq, deletedIds>>

\* mutant: the transaction ends and what it wrote stays
RollbackKeepsWrites ==
    /\ txn' = FALSE
    /\ snap' = [store |-> {}, seq |-> 0]
    /\ UNCHANGED <<store, seq>>

\* ROLLBACK: the table and its sequence as they were at BEGIN
Rollback ==
    /\ store' = snap.store
    /\ seq' = snap.seq
    /\ txn' = FALSE
    /\ snap' = [store |-> {}, seq |-> 0]

\* mutant: the inner catch rethrows without ROLLBACK
ImportAbortOnly(p) ==
    /\ pc[p] = "import_rollback"
    /\ Respond(p, ErrorResponse(500, StmtFailed))
    /\ UNCHANGED <<store, seq, txn, snap, now, nreq, deletedIds, midReads>>

\* catch (inner) { await run("ROLLBACK"); throw inner; } and the outer catch
ImportRollback(p) ==
    /\ pc[p] = "import_rollback"
    /\ Rollback
    /\ Respond(p, ErrorResponse(500, StmtFailed))
    /\ midReads' = {}
    /\ UNCHANGED <<now, nreq, deletedIds>>

\* ------------------------------------------------------------ the system
\* no request is in flight
Quiet == \A q \in Procs : pc[q] = "done"

\* a request arrives at slot p
Start(p) ==
    \/ StartList(p)
    \/ StartGet(p) \/ StartCreate(p) \/ StartUpdate(p)
    \/ StartDelete(p) \/ StartExport(p) \/ StartImport(p)

\* the same, with the wider choice of list queries
StartSeq(p) ==
    \/ StartListSeq(p)
    \/ StartGet(p) \/ StartCreate(p) \/ StartUpdate(p)
    \/ StartDelete(p) \/ StartExport(p) \/ StartImport(p)

\* the store call that the handler of slot p awaits completes
Step(p) ==
    \/ ListRows(p) \/ ListCount(p)
    \/ GetQuery(p) \/ CreateInsert(p) \/ CreateGet(p)
    \/ UpdateGet(p) \/ UpdateRun(p) \/ UpdateReget(p)
    \/ DeleteRun(p) \/ ExportQuery(p)
    \/ ImportBegin(p) \/ ImportSkip(p) \/ ImportLookup(p)
    \/ ImportUpdate(p) \/ ImportInsertId(p) \/ ImportInsertAuto(p)
    \/ ImportFault(p) \/ ImportCommit(p) \/ ImportRollback(p)

Next ==
    \E p \in Procs : Start(p) \/ Step(p)

\* requests interleave at their store calls
Spec == Init /\ [][Next]_vars

\* one request at a time: a request arrives only when none is in flight
NextSeq ==
    \E p \in Procs : (Quiet /\ StartSeq(p)) \/ Step(p)

SeqSpec == Init /\ [][NextSeq]_vars

\* ================================================================ claims
\* the steps the claims speak of, told by what the handler of slot p awaits
\* before and after
RolledBack(p) == pc[p] = "import_rollback" /\ pc'[p] = "done"
Committed(p)  == pc[p] = "import_row" /\ pc'[p] = "done"
RowDone(p)    == pc[p] \in {"import_row", "import_write"}
                    /\ loc'[p].pos = loc[p].pos + 1
UpdateWrote(p) == pc[p] = "update_run" /\ pc'[p] = "update_reget"
Deleted(p)    == pc[p] = "delete_run" /\ pc'[p] = "done"

\* ------------------------------------------------------------------- C1
\* C1: when a store call of the row loop of an import has failed, the step
\* that ends the import (its ROLLBACK and response) leaves the table exactly
\* as it was when the import's BEGIN ran, and the response is an error
\* (status 500), not a summary.
C1_RollbackRestores ==
    [][\A p \in Procs :
         RolledBack(p) =>
            /\ store' = loc[p].pre
            /\ resp'[p].status = 500
            /\ resp'[p].kind = "error"
            /\ resp'[p].counts = NoCounts]_vars

\* one request only, an import answered with an error; the clock was read at
\* second 1, so a row was written, and the table is the kept one again
C1_Witness ==
    \E p \in Procs :
        /\ nreq = 1
        /\ resp[p].status = 500
        /\ now = 1
        /\ store = {Kept}
        /\ ~txn

\* ------------------------------------------------------------------- C2
\* a row in which no alias of the first name, or no alias of the last name,
\* holds a text that is not empty
Nameless(r) ==
    \/ \A v \in {r.first_name, r.firstName, r.first_name_sp} :
          v \in {ABSENT, NULL, ""}
    \/ \A v \in {r.last_name, r.lastName, r.last_name_sp} :
          v \in {ABSENT, NULL, ""}

\* C2: an import that commits reports skipped = the number of its rows without
\* a resolvable first or last name, and inserted + updated + skipped =
\* totalParsed = the number of rows; the step that skips such a row changes
\* nothing in the table and goes on to the next row.
C2_SkipCounts ==
    [][\A p \in Procs :
         /\ Committed(p) =>
              LET c == resp'[p].counts
                  rows == req[p].rows
              IN /\ resp'[p].status = 200
                 /\ c.skipped =
                      Cardinality({i \in 1 .. Len(rows) : Nameless(rows[i])})
                 /\ c.inserted + c.updated + c.skipped = c.totalParsed
                 /\ c.totalParsed = Len(rows)
         /\ (AtRow(p) /\ Nameless(CurRow(p)) /\ loc'[p] /= loc[p]) =>
              /\ store' = store
              /\ seq' = seq
              /\ pc'[p] = "import_row"
              /\ loc'[p].pos = loc[p].pos + 1
              /\ loc'[p].skipped = loc[p].skipped + 1]_vars

\* the import of [{first_name: "A", last_name: "B"}, {last_name: "OnlyLast"}]
\* has answered {inserted: 1, updated: 0, skipped: 1, totalParsed: 2}
C2_Witness ==
    \E p \in Procs :
        /\ resp[p].kind = "summary"
        /\ resp[p].counts = [inserted |-> 1, updated |-> 0, skipped |-> 1,
                             totalParsed |-> 2]
        /\ \E c \in store : c.first_name = "A" /\ c.last_name = "B" /\ c.id = seq

\* ------------------------------------------------------------------- C3
\* the row of the table under id holds the values the import row resolves to
HoldsRow(s, id, r) ==
    \E c \in RowOf(s, id) :
        /\ c.first_name = First(r) /\ c.last_name = Last(r)
        /\ c.email = Coalesce(r.email, NULL)
        /\ c.phone = Coalesce(r.phone, NULL)
        /\ c.company = Coalesce(r.company, NULL)
        /\ c.notes = Coalesce(r.notes, NULL)

UpdatedInPlace(p, id) ==
    /\ Ids(store') = Ids(store)
    /\ Cardinality(store') = Cardinality(store)
    /\ HoldsRow(store', id, CurRow(p))
    /\ loc'[p].updated = loc[p].updated + 1
    /\ loc'[p].inserted = loc[p].inserted

InsertedUnder(p, id) ==
    /\ Ids(store') = Ids(store) \cup {id}
    /\ Cardinality(store') = Cardinality(store) + 1
    /\ HoldsRow(store', id, CurRow(p))
    /\ loc'[p].inserted = loc[p].inserted + 1
    /\ loc'[p].updated = loc[p].updated

\* C3 as claimed: every import row with resolvable names that carries an id
\* and is processed updates the contact of that id when there is one, and
\* else inserts a contact under that very id; a row without id is inserted
\* under the id the store assigns.
C3_AsClaimed ==
    [][\A p \in Procs :
         (RowDone(p) /\ ~Nameless(CurRow(p))) =>
            LET id == CurRow(p).id
            IN IF id.kind = "none"
               THEN InsertedUnder(p, seq + 1) /\ (seq + 1) \notin Ids(store)
               ELSE IF RowOf(store, id.v) /= {}
                    THEN UpdatedInPlace(p, id.v)
                    ELSE InsertedUnder(p, id.v)]_vars

\* C3, what the code does: the same for a row whose id is an integer other
\* than 0; a row whose id cell holds 0 is handled as a row without id.
C3_IdUpsert ==
    [][\A p \in Procs :
         (RowDone(p) /\ ~Nameless(CurRow(p))) =>
            LET id == CurRow(p).id
            IN IF id.kind = "none" \/ (id.kind = "int" /\ id.v = 0)
               THEN InsertedUnder(p, seq + 1) /\ (seq + 1) \notin Ids(store)
               ELSE /\ id.kind = "int"
                    /\ IF RowOf(store, id.v) /= {}
                       THEN UpdatedInPlace(p, id.v)
                       ELSE InsertedUnder(p, id.v)]_vars

\* the import of rows with ids 1 and 2 into the kept table has updated
\* contact 1 in place and inserted contact 2 under its id
C3_Witness ==
    \E p \in Procs :
        /\ resp[p].kind = "summary"
        /\ resp[p].counts.updated = 1
        /\ resp[p].counts.inserted = 1
        /\ Ids(store) = {1, 2}
        /\ \E c \in store : c.id = 1 /\ c.first_name = "C"
        /\ \E c \in store : c.id = 2 /\ c.first_name = "E"

\* ------------------------------------------------------------------- C4
\* C4: the UPDATE of PUT /contacts/:id leaves every mutable field that the
\* request body lacks as it was stored, sets every field the body gives with a
\* value other than null to that value, and leaves id and created_at alone.
C4_MergeFrame ==
    [][\A p \in Procs :
         UpdateWrote(p) =>
            \A c \in RowOf(store, req[p].id) :
               /\ RowOf(store', req[p].id) /= {}
               /\ \A d \in RowOf(store', req[p].id) :
                    /\ d.id = c.id
                    /\ d.created_at = c.created_at
                    /\ \A f \in MutableFields :
                         /\ req[p].body[f] = ABSENT => d[f] = c[f]
                         /\ req[p].body[f] \notin {ABSENT, NULL}
                              => d[f] = req[p].body[f]]_vars

\* PUT /contacts/1 {company: "X"} has written: the kept contact has the new
\* company and the e-mail address it had
C4_Witness ==
    \E p \in Procs :
        /\ pc[p] = "update_reget"
        /\ req[p].body["company"] = "X"
        /\ req[p].body["email"] = ABSENT
        /\ \E c \in store : c.id = 1 /\ c.company = "X" /\ c.email = "e"
                               /\ c.first_name = "A"

\* ------------------------------------------------------------------- C5
OptionalFields == {"email", "phone", "company", "notes"}

\* C5: the UPDATE of PUT /contacts/:id stores null in every optional field
\* that the request body gives as null, and keeps every optional field the body
\* lacks.
C5_NullClears ==
    [][\A p \in Procs :
         UpdateWrote(p) =>
            \A c \in RowOf(store, req[p].id), d \in RowOf(store', req[p].id) :
               \A f \in OptionalFields :
                  /\ req[p].body[f] = NULL => d[f] = NULL
                  /\ req[p].body[f] = ABSENT => d[f] = c[f]]_vars

\* ------------------------------------------------------------------- C6
\* C6: every row of the table has a first_name and a last_name that are texts
\* and not empty.
C6_NamesNonEmpty ==
    \A c \in store :
        /\ c.first_name \notin {"", NULL, ABSENT}
        /\ c.last_name \notin {"", NULL, ABSENT}

\* ------------------------------------------------------------------- C7
\* C7: no INSERT of POST /contacts or of an import stores a row under an id
\* that DELETE /contacts/:id removed earlier, and no UPDATE changes the id of
\* a row (the ids of the table are the same after it).
C7_IdsNeverReused ==
    [][\A p \in Procs :
         /\ (pc[p] \in {"create_insert", "import_row", "import_write"}
               /\ pc'[p] /= "import_rollback")
              => (Ids(store') \ Ids(store)) \cap deletedIds = {}
         /\ ((pc[p] = "update_run" \/ (pc[p] = "import_write" /\ loc[p].exists))
               /\ pc'[p] \notin {pc[p], "import_rollback"})
              => Ids(store') = Ids(store)]_vars

\* ------------------------------------------------------------------- C8
\* C8: a PUT /contacts/:id whose UPDATE found no row to write (the contact was
\* gone when it wrote) answers 404, never a success.
C8_UpdateNotFound ==
    [][\A p \in Procs :
         (pc[p] = "update_reget" /\ pc'[p] = "done" /\ loc[p].changes = 0)
            => resp'[p].status = 404]_vars

\* ------------------------------------------------------------------- C9
\* C9: whatever a GET /contacts/:id or GET /export of another request returned
\* while the transaction of an import was open is what the table held at the
\* import's BEGIN or what it holds at its COMMIT.
C9_NoPartialRead ==
    [][\A p \in Procs :
         Committed(p) =>
            \A r \in midReads :
               \/ r.data = View(loc[p].pre, r.id)
               \/ r.data = View(store', r.id)]_vars

\* ------------------------------------------------------------------ C10
\* C10: DELETE /contacts/:id of a contact that exists removes that row and no
\* other and answers 200, after which GET /contacts/:id answers 404; of an id
\* without contact it answers 404 and leaves the table as it is.
C10_DeleteNotFound ==
    [][\A p \in Procs :
         Deleted(p) =>
            IF RowOf(store, req[p].id) /= {}
            THEN /\ store' = store \ RowOf(store, req[p].id)
                 /\ resp'[p].status = 200
                 /\ GetResponse(store', req[p].id).status = 404
            ELSE /\ store' = store
                 /\ resp'[p].status = 404]_vars

\* DELETE /contacts/1 has removed the kept contact and answered ok, and
\* another request for contact 1 (a GET or a second DELETE) has found none
\* and answered 404
C10_Witness ==
    \E p, q \in Procs :
        /\ resp[p].kind = "ok" /\ resp[p].status = 200
        /\ resp[q].kind = "error" /\ resp[q].status = 404
        /\ deletedIds = {1}
        /\ store = {}
        /\ GetResponse(store, 1).status = 404

\* ------------------------------------------------------------------ C11
\* the slot that receives the request arriving in this step
Asked(p, op) ==
    /\ nreq' = nreq + 1
    /\ pc[p] = "done" /\ FirstFree(p)
    /\ req'[p].op = op

\* a body that gives a first name and a last name, neither empty
NamesGiven(body) ==
    \A f \in {"first_name", "last_name"} : body[f] \notin {ABSENT, NULL, ""}

Inserted(p) == pc[p] = "create_insert" /\ pc'[p] = "create_get"

\* C11: POST /contacts with first_name or last_name absent or empty is
\* answered 400 at once and changes neither the table nor the id sequence;
\* with both given it goes on to its INSERT, and the INSERT adds exactly one
\* row, which carries the fields supplied and null in every optional field
\* not supplied.
C11_CreateValidates ==
    [][\A p \in Procs :
         /\ Asked(p, "create") =>
               /\ store' = store /\ seq' = seq
               /\ IF NamesGiven(req'[p].body)
                  THEN pc'[p] = "create_insert"
                  ELSE /\ pc'[p] = "done"
                       /\ resp'[p].status = 400
                       /\ resp'[p].kind = "error"
         /\ Inserted(p) =>
               \E c \in store' \ store :
                  /\ store' = store \cup {c}
                  /\ c.id \notin Ids(store)
                  /\ seq' = c.id
                  /\ \A f \in MutableFields :
                        c[f] = IF req[p].body[f] = ABSENT
                               THEN NULL ELSE req[p].body[f]]_vars

\* one POST without first name has been refused while the row of another,
\* with both names and no phone, is in the table beside the kept contact,
\* its phone null
C11_Witness ==
    \E p, q \in Procs :
        /\ req[q].op = "create" /\ ~NamesGiven(req[q].body)
        /\ resp[q].status = 400
        /\ pc[p] = "create_get"
        /\ req[p].body["phone"] = ABSENT
        /\ \E c \in store :
              /\ c.id = loc[p].newId
              /\ c.phone = NULL
              /\ store = {Kept, c}

\* ------------------------------------------------------------------ C12
Created(p) == pc[p] = "create_get" /\ pc'[p] = "done"

\* C12: with no other request in between, POST /contacts with a first and a
\* last name answers 201 with the contact it stored, and GET /contacts/:id of
\* the id it returns answers that same contact: its fields are the ones
\* supplied (null where none was) and its created_at equals its updated_at.
C12_ReadAfterCreate ==
    [][\A p \in Procs :
         Created(p) =>
            /\ resp'[p].status = 201
            /\ \E c \in resp'[p].data :
                  /\ resp'[p].data = {c}
                  /\ GetResponse(store', c.id) =
                        Response(200, "contact", {c}, NoCounts)
                  /\ \A f \in MutableFields :
                        c[f] = IF req[p].body[f] = ABSENT
                               THEN NULL ELSE req[p].body[f]
                  /\ c.created_at = c.updated_at]_vars

\* on the table that was empty, POST {first_name: "C", last_name: "D", email:
\* "e", company: "c"} stored contact 1 at second 1, and the request after it
\* was answered 200 with that contact
C12_Witness ==
    \E c \in store :
        /\ nreq = 2
        /\ store = {c}
        /\ c.id = 1 /\ c.first_name = "C" /\ c.last_name = "D"
        /\ c.email = "e" /\ c.company = "c" /\ c.phone = NULL
        /\ c.created_at = 1 /\ c.updated_at = 1
        /\ deletedIds = {}
        /\ resp["r1"] = Response(200, "contact", {c}, NoCounts)

\* ------------------------------------------------------------------ C13
\* C13: PUT /contacts/:id with an empty body, of a contact that exists,
\* leaves every field of the row as it was except updated_at, and the row's
\* updated_at afterwards is strictly later, in the seconds datetime('now')
\* counts, than it was before.
C13_EmptyUpdateTouches ==
    [][\A p \in Procs :
         (UpdateWrote(p) /\ req[p].body = NoFields) =>
            \A c \in RowOf(store, req[p].id) :
               \E d \in RowOf(store', req[p].id) :
                  /\ \A f \in MutableFields \cup {"id", "created_at"} :
                        d[f] = c[f]
                  /\ d.updated_at > c.updated_at]_vars

\* ------------------------------------------------------------------ C14
PageRead(p)  == pc[p] = "list_rows" /\ pc'[p] /= "list_rows"
Counted(p)   == pc[p] = "list_count" /\ pc'[p] = "done"

\* the rows of a page come in the order of column col, NULL counted least
InOrderOf(rows, col, dir) ==
    \A i, j \in 1 .. Len(rows) :
        i < j => IF dir = "DESC"
                 THEN ~ValueLess(rows[i][col], rows[j][col], col)
                 ELSE ~ValueLess(rows[j][col], rows[i][col], col)

\* C14: whatever ?sort= of GET /contacts is, the column written into ORDER
\* BY is one of first_name, last_name, email, phone, company, created_at,
\* updated_at: the parameter itself when it is one of these, last_name when
\* it is anything else or absent; the statement does not fail, its rows come
\* in the order of that column, and the request is answered 200.
C14_SortAllowList ==
    [][\A p \in Procs :
         /\ PageRead(p) =>
               LET sort == req[p].query.sort
                   seven == {"first_name", "last_name", "email", "phone",
                             "company", "created_at", "updated_at"}
               IN /\ pc'[p] = "list_count"
                  /\ loc'[p].orderBy \in seven
                  /\ loc'[p].orderBy = IF sort \in seven
                                       THEN sort ELSE "last_name"
                  /\ InOrderOf(loc'[p].rows, loc'[p].orderBy,
                               IF req[p].query.dir \in {"desc", "DESC"}
                               THEN "DESC" ELSE "ASC")
         /\ Counted(p) => resp'[p].status = 200]_vars

\* GET /contacts?sort=last_name; DROP TABLE contacts&dir=DESC has read its
\* page in the order of last_name, descending: contact D before contact B
C14_Witness ==
    \E p \in Procs :
        /\ pc[p] = "list_count"
        /\ req[p].query.sort = "last_name; DROP TABLE contacts"
        /\ req[p].query.dir = "DESC"
        /\ loc[p].orderBy = "last_name"
        /\ Len(loc[p].rows) = 2
        /\ loc[p].rows[1].last_name = "D"
        /\ loc[p].rows[2].last_name = "B"

\* ------------------------------------------------------------------ C15
\* the elements of sq at the positions a <= i < b, counted from 0
Slice(sq, a, b) ==
    SubSeq(sq, (IF a < 0 THEN 0 ELSE a) + 1, IF b > Len(sq) THEN Len(sq) ELSE b)

\* the response of slot p's GET /contacts is a page of the table as it is:
\* total counts the rows the filter keeps, and the page is what cut(sq) takes
\* of some sequence sq of exactly those rows in the order asked for
PageOf(p, cut(_, _, _)) ==
    LET query  == req[p].query
        q      == IF query.q = ABSENT THEN "" ELSE query.q
        limit  == IF query.limit = ABSENT
                  THEN DefaultLimit ELSE ToNumber(query.limit)
        offset == IF query.offset = ABSENT
                  THEN DefaultOffset ELSE ToNumber(query.offset)
        kept   == IF q = "" THEN store ELSE {c \in store : Matches(c, q)}
        dir    == IF query.dir \in {"desc", "DESC"} THEN "DESC" ELSE "ASC"
    IN /\ resp'[p].status = 200
       /\ resp'[p].total = Cardinality(kept)
       /\ \E sq \in Ordered(kept, loc[p].orderBy, dir) :
             resp'[p].data = cut(sq, limit, offset)
       /\ kept = {} => resp'[p].data = <<>> /\ resp'[p].total = 0

CutAsClaimed(sq, limit, offset) == Slice(sq, offset, offset + limit)

CutAsBuilt(sq, limit, offset) ==
    LET from == IF offset < 0 THEN 0 ELSE offset
    IN IF limit < 0 THEN Slice(sq, from, Len(sq))
       ELSE Slice(sq, from, from + limit)

InTxn == {p \in Procs : pc[p] \in {"import_row", "import_write",
                                    "import_rollback"}}

\* C16: the connection has a transaction open exactly while one import is
\* between its BEGIN and its response, and the step in which such an import
\* responds, with a summary or with an error, is the step of its COMMIT or
\* its ROLLBACK: the transaction was open until then and is closed by it.
C16_TxnEnded ==
    /\ [](Cardinality(InTxn) = IF txn THEN 1 ELSE 0)
    /\ [][\A p \in InTxn :
            pc'[p] = "done" =>
               /\ txn /\ ~txn'
               /\ InTxn' = {}
               /\ \/ resp'[p].kind = "summary" /\ pc[p] = "import_row"
                  \/ resp'[p].status = 500 /\ pc[p] = "import_rollback"]_vars

\* two imports have responded, one with its summary after COMMIT and one
\* with an error after ROLLBACK, and no transaction is open
C16_Witness ==
    \E p, q \in Procs :
        /\ nreq = 2
        /\ resp[p].kind = "summary" /\ resp[p].counts.totalParsed = 2
        /\ resp[q].status = 500 /\ resp[q].error = StmtFailed
        /\ pc[p] = "done" /\ pc[q] = "done"
        /\ ~txn

\* ------------------------------------------------------------------ C17
\* C17: the ROLLBACK of an import undoes no write of another request that
\* has been answered with success: a contact that POST /contacts (201) or PUT
\* /contacts/:id (200) has answered and that is in the table before the
\* ROLLBACK is in the table after it, and an id that DELETE /contacts/:id has
\* removed and that is not in the table before the ROLLBACK is not in the
\* table after it.
C17_WritesSurvive ==
    [][\A p \in Procs :
         RolledBack(p) =>
            /\ \A q \in Procs \ {p} :
                  ( /\ resp[q].status = 201 \/ resp[q].kind = "updated"
                    /\ resp[q].data \subseteq store )
                  => resp[q].data \subseteq store'
            /\ \A id \in deletedIds :
                  id \notin Ids(store) => id \notin Ids(store')]_vars

\* ------------------------------------------------------------------ C18
\* the fields a body of PUT /contacts/:id supplies
Supplied(body) == {f \in MutableFields : body[f] /= ABSENT}

\* C18: when PUT /contacts/:id of slot p writes while another PUT of the same
\* contact, of slot q, has written and not yet answered, and the two bodies
\* supply no field in common, the row after p's write carries every value
\* that either body supplies (a supplied null, the matter of C5, left aside).
C18_DisjointUpdates ==
    [][\A p, q \in Procs :
         ( /\ p /= q
           /\ UpdateWrote(p)
           /\ pc[q] = "update_reget" /\ loc[q].changes = 1
           /\ req[q].id = req[p].id
           /\ Supplied(req[p].body) \cap Supplied(req[q].body) = {} )
         => \A d \in RowOf(store', req[p].id) :
               \A r \in {p, q} :
                  \A f \in Supplied(req[r].body) :
                     req[r].body[f] /= NULL => d[f] = req[r].body[f]]_vars

\* ------------------------------------------------------------------ C19
\* C19: when the BEGIN of an import runs while the transaction of another
\* import is open, the import is answered with an error (500) in that step
\* and does nothing more: the table and the id sequence are unchanged, the
\* transaction stays open, what its ROLLBACK would restore is unchanged, and
\* the other requests in flight are where they were, so the first import
\* goes on to commit all its rows or to roll all of them back.
C19_SecondImportRefused ==
    [][\A p \in Procs :
         (pc[p] = "import_begin" /\ pc'[p] /= "import_begin" /\ txn) =>
            /\ pc'[p] = "done"
            /\ resp'[p].status = 500 /\ resp'[p].kind = "error"
            /\ store' = store /\ seq' = seq
            /\ txn' /\ snap' = snap
            /\ InTxn' = InTxn /\ Cardinality(InTxn) = 1
            /\ \A q \in Procs \ {p} :
                  pc'[q] = pc[q] /\ loc'[q] = loc[q] /\ req'[q] = req[q]]_vars

\* an import has been refused at its BEGIN, and the import whose transaction
\* is open has inserted a row since and is still in its row loop
C19_Witness ==
    \E p, q \in Procs :
        /\ resp[q].status = 500 /\ resp[q].error = NestedBegin
        /\ pc[q] = "done"
        /\ p \in InTxn /\ txn
        /\ loc[p].inserted = 1
        /\ Cardinality(store) = Cardinality(snap.store) + 1

\* ------------------------------------------------------------------ C20
\* C20: whatever other requests write between the page query and the count
\* query of one GET /contacts, the answer has no more rows in its page than
\* its total says, and every row of the page is one of the rows that total
\* counts: a row of the table, matching the filter, as the count query
\* finds it.
C20_PageWithinTotal ==
    [][\A p \in Procs :
         Counted(p) =>
            /\ Len(resp'[p].data) <= resp'[p].total
            /\ \A i \in 1 .. Len(resp'[p].data) :
                  resp'[p].data[i] \in
                     Where(store, Default(req[p].query.q, ""))]_vars

====
